---- MODULE Spec2Model ----
(***************************************************************************)
(* Verification model of the command-line utilities of Python_Mini_Utilities *)
(* Part 1: the Wordle solver (src/tools/wordle_solver.py): the candidate     *)
(* pool, filter_words, calculate_scores and recommend.                       *)
(*                                                                           *)
(* A word is a sequence of one-character strings; a list of words is a       *)
(* sequence of words; a collections.Counter and the scores dict are          *)
(* functions: a Counter reads 0 for a key it does not hold, so it is a       *)
(* function on the whole alphabet that starts at 0; the scores dict is a     *)
(* function on its keys.                                                     *)
(***************************************************************************)
EXTENDS Integers, Sequences, FiniteSets, TLC

VARIABLES
    words,           \* WordleSolver.words
    possible_words,  \* WordleSolver.possible_words
    prev_words,      \* possible_words as it was when the last load or filter began
    guess,           \* the caller's guess  (input of a single-filter run)
    pattern,         \* the caller's pattern (input of a single-filter run)
    scores,          \* the dict returned by the last calculate_scores()
    ranked,          \* the list returned by the last recommend()
    nfilter,         \* filter_words calls made so far in a single-filter run
    pc,              \* the last operation completed
    running,         \* main_loop: the while True loop has not reached a break
    history,         \* the (guess, pattern) pairs passed to filter_words, in order
    arg_n,           \* primes_toolkit: the argument n of factorize
    factors,         \* primes_toolkit: the list factorize returned
    fpc,             \* primes_toolkit: "idle", or "returned" after factorize
    board,           \* TicTacToe.board
    current_winner,  \* TicTacToe.current_winner
    letter,          \* play: the letter whose turn it is
    result,          \* play: its return value, "None" while the game goes on
    chosen,          \* play: the square get_move returned, -1 when none is pending
    snake_body,      \* Snake.body, head first; a cell is <<row, col>>
    snake_direction, \* Snake.direction
    grow_pending,    \* Snake.grow_pending
    food,            \* SnakeGame.food
    paused,          \* SnakeGame.paused
    game_over,       \* SnakeGame.game_over
    snake_running,   \* SnakeGame.running
    last_move,       \* the direction of the snake's last actual move, "None" before the first
    spc,             \* SnakeGame.run: the call the game loop makes next
    maze,            \* maze.py: the grid, maze[y][x] with 1 a wall and 0 open
    stack,           \* generate_maze: the calls of carve in progress, innermost last
    open_set,        \* solve_maze: the heap open_set, as the set of its entries
    came_from,       \* solve_maze: the dict came_from
    g_score,         \* solve_maze: the dict g_score
    path,            \* solve_maze: the list it returned
    mpc,             \* maze.py: the step main makes next
    command          \* maze.py: args.command, "gen" (with --solve) or "solve"

\* the variables of the Wordle solver, of the prime toolkit and of tic-tac-toe
solver_vars == <<words, possible_words, prev_words, guess, pattern, scores, ranked, nfilter,
                 pc, running, history>>
primes_vars == <<arg_n, factors, fpc>>
game_vars == <<board, current_winner, letter, result, chosen>>
snake_vars == <<snake_body, snake_direction, grow_pending, food, paused, game_over,
                snake_running, last_move, spc>>
maze_vars == <<maze, stack, open_set, came_from, g_score, path, mpc, command>>

vars == <<solver_vars, primes_vars, game_vars, snake_vars, maze_vars>>

\* the prime toolkit is not in use
PrimesIdle ==
    /\ arg_n = 0
    /\ factors = <<>>
    /\ fpc = "idle"

\* no game of tic-tac-toe is in progress
GameIdle ==
    /\ board = [i \in 0..8 |-> " "]
    /\ current_winner = "None"
    /\ letter = "X"
    /\ result = "None"
    /\ chosen = -1

\* no game of snake is in progress
SnakeIdle ==
    /\ snake_body = <<>>
    /\ snake_direction = "RIGHT"
    /\ grow_pending = 0
    /\ food = <<0, 0>>
    /\ paused = FALSE
    /\ game_over = FALSE
    /\ snake_running = FALSE
    /\ last_move = "None"
    /\ spc = "idle"

\* the maze tool is not in use
MazeIdle ==
    /\ maze = <<>>
    /\ stack = <<>>
    /\ open_set = {}
    /\ came_from = {}
    /\ g_score = {}
    /\ path = <<>>
    /\ mpc = "idle"
    /\ command = "none"

----------------------------------------------------------------------------
(* Bounds of the model *)

\* number of entries of Universe from which downloaded word lists are selected
MaxWords == 4
\* number of entries of Universe from which the pool of a ranking run is selected
MaxRank == 11
\* number of entries of FilterBase from which the pool of a single-filter run is selected
MaxPool == 5
\* number of times a single-filter run repeats filter_words with the same input
MaxRepeat == 2

----------------------------------------------------------------------------
(* Program constants *)

\* len(w.strip()) == 5, len(guess) != 5, len(pattern) != 5
WordLen == 5
\* ranked[:10]
TopK == 10

----------------------------------------------------------------------------
(* Words *)

slate == <<"s","l","a","t","e">>
sauce == <<"s","a","u","c","e">>
slice == <<"s","l","i","c","e">>
shale == <<"s","h","a","l","e">>
saute == <<"s","a","u","t","e">>
share == <<"s","h","a","r","e">>
sooty == <<"s","o","o","t","y">>
shine == <<"s","h","i","n","e">>
suite == <<"s","u","i","t","e">>
crane == <<"c","r","a","n","e">>
trace == <<"t","r","a","c","e">>
sushi == <<"s","u","s","h","i">>
sassy == <<"s","a","s","s","y">>
geese == <<"g","e","e","s","e">>
stash == <<"s","t","a","s","h">>
eerie == <<"e","e","r","i","e">>

HARDCODED_FALLBACK ==
    <<slate, sauce, slice, shale, saute, share, sooty, shine, suite, crane>>

\* The lines a download can deliver, in file order (one word occurs twice:
\* the list is not deduplicated).
Universe ==
    <<slate, crane, slate, trace, sushi, shine, geese, sassy,
      stash, sooty, suite, eerie, share>>

\* The pools of a single-filter run are selected from these entries.
FilterBase ==
    <<sassy, shine, geese, sassy, sushi, slate, stash, eerie>>

\* The guesses a caller types; a guess need not be a word of the list.
Guesses == {sassy, slate, geese, eerie, shine}

\* The guesses typed during a session
SessionGuesses == {sassy, slate, geese}

Marks == {"G", "Y", "X"}
Patterns == [1..WordLen -> Marks]

----------------------------------------------------------------------------
(* Helpers *)

Range(s) == {s[i] : i \in DOMAIN s}

Min(a, b) == IF a <= b THEN a ELSE b

\* the entries of s at the positions in I, in the order of s
Pick(s, I) ==
    [j \in 1..Cardinality(I) |->
        s[CHOOSE i \in I : Cardinality({x \in I : x <= i}) = j]]

\* all sub-lists of s (entries kept in order), as a set of sequences
SubLists(s) == {Pick(s, I) : I \in SUBSET (DOMAIN s)}

\* The word lists load_words can produce from a download
WordLists == SubLists(SubSeq(Universe, 1, MaxWords))

\* The pools a ranking run starts from
RankPools == SubLists(SubSeq(Universe, 1, MaxRank))

\* The pools a single-filter run starts from
FilterPools == SubLists(SubSeq(FilterBase, 1, MaxPool))

----------------------------------------------------------------------------
(* collections.Counter *)

Alphabet ==
    {"a","b","c","d","e","f","g","h","i","j","k","l","m",
     "n","o","p","q","r","s","t","u","v","w","x","y","z"}

\* Counter(): every key reads 0
EmptyCounter == [c \in Alphabet |-> 0]

\* counter[c]
CounterGet(cnt, c) == cnt[c]

\* counter[c] += d
CounterAdd(cnt, c, d) == [cnt EXCEPT ![c] = @ + d]

\* counter.update(word): one more for each occurrence of a letter in word
CounterUpdate(cnt, word) ==
    [c \in Alphabet |-> cnt[c] + Cardinality({i \in DOMAIN word : word[i] = c})]

\* Counter(word)
CounterOf(word) == CounterUpdate(EmptyCounter, word)

\* counter.update(set(word)): one more for each distinct letter
CounterUpdateSet(cnt, letters) ==
    [c \in Alphabet |-> cnt[c] + (IF c \in letters THEN 1 ELSE 0)]

----------------------------------------------------------------------------
(* filter_words *)

\* zip(guess, pattern) stops at the shorter of the two
ZipLen(g, p) == Min(Len(g), Len(p))

\* Variant of Pass1: a green match does not consume an occurrence
\* (word_counts[g_char] -= 1 left out).
RECURSIVE Pass1NoDecrement(_, _, _, _, _)
Pass1NoDecrement(word, g, p, i, cnt) ==
    IF i > ZipLen(g, p) THEN [match |-> TRUE, counts |-> cnt]
    ELSE IF p[i] = "G"
         THEN IF word[i] # g[i]
              THEN [match |-> FALSE, counts |-> cnt]
              ELSE Pass1NoDecrement(word, g, p, i + 1, cnt)
         ELSE Pass1NoDecrement(word, g, p, i + 1, cnt)

\* Pass 1: Handle GREENS. The result is the pair (match, word_counts).
RECURSIVE Pass1(_, _, _, _, _)
Pass1(word, g, p, i, cnt) ==
    IF i > ZipLen(g, p) THEN [match |-> TRUE, counts |-> cnt]
    ELSE IF p[i] = "G"
         THEN IF word[i] # g[i]
              THEN [match |-> FALSE, counts |-> cnt]
              ELSE Pass1(word, g, p, i + 1, CounterAdd(cnt, g[i], -1))
         ELSE Pass1(word, g, p, i + 1, cnt)

\* Variant of Pass2: the branch for X is left out (grays are not checked).
RECURSIVE Pass2NoGray(_, _, _, _, _)
Pass2NoGray(word, g, p, i, cnt) ==
    IF i > ZipLen(g, p) THEN [match |-> TRUE, counts |-> cnt]
    ELSE IF p[i] = "Y"
         THEN IF word[i] = g[i] \/ CounterGet(cnt, g[i]) = 0
              THEN [match |-> FALSE, counts |-> cnt]
              ELSE Pass2NoGray(word, g, p, i + 1, CounterAdd(cnt, g[i], -1))
    ELSE Pass2NoGray(word, g, p, i + 1, cnt)

\* Variant of Pass2: a yellow does not check the position
\* (word[i] == g_char left out of the test).
RECURSIVE Pass2NoPosition(_, _, _, _, _)
Pass2NoPosition(word, g, p, i, cnt) ==
    IF i > ZipLen(g, p) THEN [match |-> TRUE, counts |-> cnt]
    ELSE IF p[i] = "G" THEN Pass2NoPosition(word, g, p, i + 1, cnt)
    ELSE IF p[i] = "Y"
         THEN IF CounterGet(cnt, g[i]) = 0
              THEN [match |-> FALSE, counts |-> cnt]
              ELSE Pass2NoPosition(word, g, p, i + 1, CounterAdd(cnt, g[i], -1))
    ELSE IF p[i] = "X"
         THEN IF CounterGet(cnt, g[i]) > 0
              THEN [match |-> FALSE, counts |-> cnt]
              ELSE Pass2NoPosition(word, g, p, i + 1, cnt)
    ELSE Pass2NoPosition(word, g, p, i + 1, cnt)

\* Variant of Pass2: a yellow does not check that an occurrence is left
\* (word_counts[g_char] == 0 left out of the test).
RECURSIVE Pass2NoYellowCount(_, _, _, _, _)
Pass2NoYellowCount(word, g, p, i, cnt) ==
    IF i > ZipLen(g, p) THEN [match |-> TRUE, counts |-> cnt]
    ELSE IF p[i] = "G" THEN Pass2NoYellowCount(word, g, p, i + 1, cnt)
    ELSE IF p[i] = "Y"
         THEN IF word[i] = g[i]
              THEN [match |-> FALSE, counts |-> cnt]
              ELSE Pass2NoYellowCount(word, g, p, i + 1, CounterAdd(cnt, g[i], -1))
    ELSE IF p[i] = "X"
         THEN IF CounterGet(cnt, g[i]) > 0
              THEN [match |-> FALSE, counts |-> cnt]
              ELSE Pass2NoYellowCount(word, g, p, i + 1, cnt)
    ELSE Pass2NoYellowCount(word, g, p, i + 1, cnt)

\* Variant of Pass2: two sweeps, all the yellows first and the grays after
\* them (steps 1..ZipLen are the yellows, the next ZipLen steps the grays).
RECURSIVE Pass2YellowsFirst(_, _, _, _, _)
Pass2YellowsFirst(word, g, p, i, cnt) ==
    IF i > 2 * ZipLen(g, p) THEN [match |-> TRUE, counts |-> cnt]
    ELSE IF i <= ZipLen(g, p)
         THEN IF p[i] = "Y"
              THEN IF word[i] = g[i] \/ CounterGet(cnt, g[i]) = 0
                   THEN [match |-> FALSE, counts |-> cnt]
                   ELSE Pass2YellowsFirst(word, g, p, i + 1, CounterAdd(cnt, g[i], -1))
              ELSE Pass2YellowsFirst(word, g, p, i + 1, cnt)
    ELSE IF p[i - ZipLen(g, p)] = "X"
         THEN IF CounterGet(cnt, g[i - ZipLen(g, p)]) > 0
              THEN [match |-> FALSE, counts |-> cnt]
              ELSE Pass2YellowsFirst(word, g, p, i + 1, cnt)
    ELSE Pass2YellowsFirst(word, g, p, i + 1, cnt)

\* Pass 2: Handle YELLOWS and GRAYS, left to right.
RECURSIVE Pass2(_, _, _, _, _)
Pass2(word, g, p, i, cnt) ==
    IF i > ZipLen(g, p) THEN [match |-> TRUE, counts |-> cnt]
    ELSE IF p[i] = "G" THEN Pass2(word, g, p, i + 1, cnt)
    ELSE IF p[i] = "Y"
         THEN IF word[i] = g[i] \/ CounterGet(cnt, g[i]) = 0
              THEN [match |-> FALSE, counts |-> cnt]
              ELSE Pass2(word, g, p, i + 1, CounterAdd(cnt, g[i], -1))
    ELSE IF p[i] = "X"
         THEN IF CounterGet(cnt, g[i]) > 0
              THEN [match |-> FALSE, counts |-> cnt]
              ELSE Pass2(word, g, p, i + 1, cnt)
    ELSE Pass2(word, g, p, i + 1, cnt)

\* Variant of WordMatches: one pass from left to right handles the greens
\* together with the yellows and the grays, so a gray is checked before the
\* greens to its right have been counted.
RECURSIVE SinglePass(_, _, _, _, _)
SinglePass(word, g, p, i, cnt) ==
    IF i > ZipLen(g, p) THEN TRUE
    ELSE IF p[i] = "G"
         THEN IF word[i] # g[i] THEN FALSE
              ELSE SinglePass(word, g, p, i + 1, CounterAdd(cnt, g[i], -1))
    ELSE IF p[i] = "Y"
         THEN IF word[i] = g[i] \/ CounterGet(cnt, g[i]) = 0 THEN FALSE
              ELSE SinglePass(word, g, p, i + 1, CounterAdd(cnt, g[i], -1))
    ELSE IF p[i] = "X"
         THEN IF CounterGet(cnt, g[i]) > 0 THEN FALSE
              ELSE SinglePass(word, g, p, i + 1, cnt)
    ELSE SinglePass(word, g, p, i + 1, cnt)

WordMatchesSinglePass(word, g, p) == SinglePass(word, g, p, 1, CounterOf(word))

\* the body of the loop over possible_words: does word stay?
WordMatches(word, g, p) ==
    LET r1 == Pass1(word, g, p, 1, CounterOf(word))
    IN IF ~r1.match THEN FALSE
       ELSE Pass2(word, g, p, 1, r1.counts).match

\* Variant of NewCandidates: new_candidates.append(guess) for append(word).
RECURSIVE NewCandidatesAppendGuess(_, _, _, _, _)
NewCandidatesAppendGuess(pool, g, p, k, acc) ==
    IF k > Len(pool) THEN acc
    ELSE NewCandidatesAppendGuess(pool, g, p, k + 1,
             IF WordMatches(pool[k], g, p) THEN Append(acc, g) ELSE acc)

\* Variant of NewCandidates: the loop ends at the first word that stays.
RECURSIVE NewCandidatesFirstOnly(_, _, _, _, _)
NewCandidatesFirstOnly(pool, g, p, k, acc) ==
    IF k > Len(pool) THEN acc
    ELSE IF WordMatches(pool[k], g, p) THEN Append(acc, pool[k])
    ELSE NewCandidatesFirstOnly(pool, g, p, k + 1, acc)

\* Variant of NewCandidates: words are removed from the list being iterated,
\* so the word that follows a removed word is not examined and stays.
RECURSIVE NewCandidatesSkip(_, _, _, _, _)
NewCandidatesSkip(pool, g, p, k, acc) ==
    IF k > Len(pool) THEN acc
    ELSE IF WordMatches(pool[k], g, p)
         THEN NewCandidatesSkip(pool, g, p, k + 1, Append(acc, pool[k]))
    ELSE IF k + 1 > Len(pool) THEN acc
    ELSE NewCandidatesSkip(pool, g, p, k + 2, Append(acc, pool[k + 1]))

\* Variant of NewCandidates: new_candidates.insert(0, word) for append(word).
RECURSIVE NewCandidatesPrepend(_, _, _, _, _)
NewCandidatesPrepend(pool, g, p, k, acc) ==
    IF k > Len(pool) THEN acc
    ELSE NewCandidatesPrepend(pool, g, p, k + 1,
             IF WordMatches(pool[k], g, p) THEN <<pool[k]>> \o acc ELSE acc)

\* Variant of NewCandidates: when no word stays, the last word of the pool is
\* kept.
RECURSIVE NewCandidatesKeepLast(_, _, _, _, _)
NewCandidatesKeepLast(pool, g, p, k, acc) ==
    IF k > Len(pool)
    THEN IF acc = <<>> /\ pool # <<>> THEN <<pool[Len(pool)]>> ELSE acc
    ELSE NewCandidatesKeepLast(pool, g, p, k + 1,
             IF WordMatches(pool[k], g, p) THEN Append(acc, pool[k]) ELSE acc)

\* new_candidates: the words that stay, appended in the order of the pool
RECURSIVE NewCandidates(_, _, _, _, _)
NewCandidates(pool, g, p, k, acc) ==
    IF k > Len(pool) THEN acc
    ELSE NewCandidates(pool, g, p, k + 1,
                       IF WordMatches(pool[k], g, p) THEN Append(acc, pool[k]) ELSE acc)

\* Variant of FilterWords: the survivors are added to the pool instead of
\* replacing it.
FilterWordsExtend(pool, g, p) == pool \o NewCandidates(pool, g, p, 1, <<>>)

\* self.possible_words = new_candidates
FilterWords(pool, g, p) == NewCandidates(pool, g, p, 1, <<>>)

----------------------------------------------------------------------------
(* calculate_scores and recommend *)

Letters(word) == Range(word)

\* Variant of LetterCounts: letter_counts.update(word) for update(set(word)).
RECURSIVE LetterCountsPerOccurrence(_, _, _)
LetterCountsPerOccurrence(pool, k, cnt) ==
    IF k > Len(pool) THEN cnt
    ELSE LetterCountsPerOccurrence(pool, k + 1, CounterUpdate(cnt, pool[k]))

RECURSIVE LetterCounts(_, _, _)
LetterCounts(pool, k, cnt) ==
    IF k > Len(pool) THEN cnt
    ELSE LetterCounts(pool, k + 1, CounterUpdateSet(cnt, Letters(pool[k])))

RECURSIVE SumCounts(_, _)
SumCounts(cnt, letters) ==
    IF letters = {} THEN 0
    ELSE LET c == CHOOSE x \in letters : TRUE
         IN CounterGet(cnt, c) + SumCounts(cnt, letters \ {c})

\* scores = {}
EmptyScores == <<>>

\* scores[word] = v
DictPut(sc, w, v) == (w :> v) @@ sc

\* for word in self.possible_words: scores[word] = sum(...)
RECURSIVE ScoresLoop(_, _, _, _)
ScoresLoop(pool, letter_counts, k, sc) ==
    IF k > Len(pool) THEN sc
    ELSE ScoresLoop(pool, letter_counts, k + 1,
                    DictPut(sc, pool[k], SumCounts(letter_counts, Letters(pool[k]))))

CalculateScores(pool) ==
    IF pool = <<>> THEN EmptyScores
    ELSE ScoresLoop(pool, LetterCounts(pool, 1, EmptyCounter), 1, EmptyScores)

\* scores.get(w, 0)
ScoreGet(sc, w) == IF w \in DOMAIN sc THEN sc[w] ELSE 0

\* Variant of InsertDesc: an ascending sort read backwards, which turns the
\* entries of equal key around.
RECURSIVE InsertDescUnstable(_, _, _)
InsertDescUnstable(done, w, sc) ==
    IF done = <<>> THEN <<w>>
    ELSE IF ScoreGet(sc, Head(done)) > ScoreGet(sc, w)
         THEN <<Head(done)>> \o InsertDescUnstable(Tail(done), w, sc)
         ELSE <<w>> \o done

\* sorted(..., reverse=True) is stable: an entry goes after every entry already
\* placed whose key is greater than or equal to its own.
RECURSIVE InsertDesc(_, _, _)
InsertDesc(done, w, sc) ==
    IF done = <<>> THEN <<w>>
    ELSE IF ScoreGet(sc, Head(done)) >= ScoreGet(sc, w)
         THEN <<Head(done)>> \o InsertDesc(Tail(done), w, sc)
         ELSE <<w>> \o done

RECURSIVE SortedDesc(_, _, _, _)
SortedDesc(pool, sc, k, done) ==
    IF k > Len(pool) THEN done
    ELSE SortedDesc(pool, sc, k + 1, InsertDesc(done, pool[k], sc))

\* Variant of Slice: the whole list is returned.
SliceAll(s, n) == s

\* ranked[:10]
Slice(s, n) == SubSeq(s, 1, Min(n, Len(s)))

\* Variant of SortedArgument: the pool is sorted in place
\* (self.possible_words.sort(...) for sorted(self.possible_words, ...)).
SortedInPlace(pool) == SortedDesc(pool, CalculateScores(pool), 1, <<>>)

\* sorted() builds a new list: the list passed to it is left as it is
SortedArgument(pool) == pool

\* Variant of Recommend: the starter suggestion is returned when nothing is
\* left to rank.
RecommendStarter(pool) ==
    IF pool = <<>> THEN <<slate>>
    ELSE Slice(SortedDesc(pool, CalculateScores(pool), 1, <<>>), TopK)

Recommend(pool) ==
    LET sc == CalculateScores(pool)
        rk == SortedDesc(pool, sc, 1, <<>>)
    IN Slice(rk, TopK)

----------------------------------------------------------------------------
(* The solver object and its operations *)

\* WordleSolver.__init__
Init ==
    /\ words = <<>>
    /\ possible_words = <<>>
    /\ prev_words = <<>>
    /\ guess = <<>>
    /\ pattern = <<>>
    /\ scores = EmptyScores
    /\ ranked = <<>>
    /\ nfilter = 0
    /\ pc = "init"
    /\ running = TRUE
    /\ history = <<>>
    /\ PrimesIdle
    /\ GameIdle
    /\ SnakeIdle
    /\ MazeIdle

\* load_words: the download delivers a list, or fails and the fallback is used
load_words ==
    /\ pc = "init"
    /\ \E wl \in WordLists \cup {HARDCODED_FALLBACK} :
          /\ words' = wl
          /\ possible_words' = wl
    /\ prev_words' = possible_words
    /\ pc' = "loaded"
    /\ UNCHANGED <<guess, pattern, scores, ranked, nfilter, running, history>>
    /\ UNCHANGED <<primes_vars, game_vars, snake_vars, maze_vars>>

\* filter_words(guess, pattern); nfilter and history are left to the caller
filter_words(g, p) ==
    /\ pc # "init"
    /\ possible_words' = FilterWords(possible_words, g, p)
    /\ prev_words' = possible_words
    /\ pc' = "filtered"
    /\ UNCHANGED <<words, guess, pattern, scores, ranked, running>>
    /\ UNCHANGED <<primes_vars, game_vars, snake_vars, maze_vars>>

calculate_scores ==
    /\ pc # "init"
    /\ scores' = CalculateScores(possible_words)
    /\ pc' = "scored"
    /\ UNCHANGED <<words, possible_words, prev_words, guess, pattern, ranked, nfilter,
                   running, history>>
    /\ UNCHANGED <<primes_vars, game_vars, snake_vars, maze_vars>>

recommend ==
    /\ pc # "init"
    /\ ranked' = Recommend(possible_words)
    /\ possible_words' = SortedArgument(possible_words)
    /\ pc' = "recommended"
    /\ UNCHANGED <<words, prev_words, guess, pattern, scores, nfilter, running, history>>
    /\ UNCHANGED <<primes_vars, game_vars, snake_vars, maze_vars>>

\* A solving session (main_loop): load, then any sequence of filters and
\* recommendations, with any guess and any pattern over G/Y/X.
Next ==
    \/ load_words
    \/ \E g \in SessionGuesses, p \in Patterns :
          filter_words(g, p) /\ UNCHANGED <<nfilter, history>>
    \/ recommend

Spec == Init /\ [][Next]_vars

----------------------------------------------------------------------------
(* A single-filter run: one pool, one guess and one pattern are chosen, and  *)
(* filter_words is called with them, MaxRepeat times in a row.               *)

InitFilter ==
    /\ words \in FilterPools
    /\ possible_words = words
    /\ prev_words = words
    /\ guess \in Guesses
    /\ pattern \in Patterns
    /\ scores = EmptyScores
    /\ ranked = <<>>
    /\ nfilter = 0
    /\ pc = "loaded"
    /\ running = TRUE
    /\ history = <<>>
    /\ PrimesIdle
    /\ GameIdle
    /\ SnakeIdle
    /\ MazeIdle

filter_same ==
    /\ nfilter < MaxRepeat
    /\ filter_words(guess, pattern)
    /\ nfilter' = nfilter + 1
    /\ UNCHANGED history

NextFilter == filter_same

SpecFilter == InitFilter /\ [][NextFilter]_vars

----------------------------------------------------------------------------
(* A ranking run: one pool is chosen, and calculate_scores and recommend are *)
(* called on it.                                                             *)

InitRank ==
    /\ words \in RankPools
    /\ possible_words = words
    /\ prev_words = words
    /\ guess = <<>>
    /\ pattern = <<>>
    /\ scores = EmptyScores
    /\ ranked = <<>>
    /\ nfilter = 0
    /\ pc = "loaded"
    /\ running = TRUE
    /\ history = <<>>
    /\ PrimesIdle
    /\ GameIdle
    /\ SnakeIdle
    /\ MazeIdle

NextRank ==
    \/ pc = "loaded" /\ calculate_scores
    \/ pc = "loaded" /\ recommend

SpecRank == InitRank /\ [][NextRank]_vars

----------------------------------------------------------------------------
(* main_loop: one pass of the while True loop reads a guess and a pattern    *)
(* from the keyboard, validates them, filters, and reports.                  *)

LowerLetters ==
    <<"a","b","c","d","e","f","g","h","i","j","k","l","m",
      "n","o","p","q","r","s","t","u","v","w","x","y","z">>
UpperLetters ==
    <<"A","B","C","D","E","F","G","H","I","J","K","L","M",
      "N","O","P","Q","R","S","T","U","V","W","X","Y","Z">>

\* the characters str.strip() removes from both ends
Whitespace == {" ", "\t"}

\* str.strip()
Strip(s) ==
    LET keep == {i \in DOMAIN s : s[i] \notin Whitespace}
    IN IF keep = {} THEN <<>>
       ELSE SubSeq(s, CHOOSE i \in keep : \A j \in keep : i <= j,
                      CHOOSE i \in keep : \A j \in keep : j <= i)

\* str.lower()
Lower(s) ==
    [i \in DOMAIN s |->
        IF \E n \in DOMAIN UpperLetters : UpperLetters[n] = s[i]
        THEN LowerLetters[CHOOSE n \in DOMAIN UpperLetters : UpperLetters[n] = s[i]]
        ELSE s[i]]

\* str.upper()
Upper(s) ==
    [i \in DOMAIN s |->
        IF \E n \in DOMAIN LowerLetters : LowerLetters[n] = s[i]
        THEN UpperLetters[CHOOSE n \in DOMAIN LowerLetters : LowerLetters[n] = s[i]]
        ELSE s[i]]

\* the command that leaves the loop
exit == <<"e","x","i","t">>

\* What the user types at the "Your Guess" prompt: words as they are, in
\* capitals, padded with blanks, too short, too long, empty, and the command.
TypedGuesses ==
    { <<"S","L","A","T","E">>,
      <<" ","s","a","s","s","y"," ">>,
      geese,
      <<"s","l","a","t">>,
      <<"s","l","a","t","e","s">>,
      <<>>,
      exit,
      <<" ","E","x","i","t">> }

\* What the user types at the "Result Pattern" prompt: G/Y/X patterns in
\* capitals, in small letters and padded; and lines that are too short, too
\* long, empty, or hold other characters.
TypedPatterns ==
    { p \in Patterns : p[3] = "X" /\ p[4] = "X" /\ p[5] = "X" }
    \cup
    { <<"G","G","G","G","G">>,
      <<"X","X","X","X","G">>,
      <<"g","y","x","x","x">>,
      <<" ","X","G","X","X","X","\t">>,
      <<"G","X","X","X">>,
      <<"G","X","X","X","X","X">>,
      <<>>,
      <<"G","X","X","X","A">>,
      <<"G","X"," ","X","X">>,
      <<"B","X","X","X","X">>,
      <<"1","2","3","4","5">> }

\* len(guess) != 5 is refused
GuessLenOk(g) == Len(g) = WordLen

\* len(pattern) != 5 is refused
PatternLenOk(p) == Len(p) = WordLen

\* Variant of PatternCharsOk: the characters of the pattern are not checked.
PatternCharsUnchecked(p) == TRUE

\* any(c not in 'GYX' for c in pattern) is refused
PatternCharsOk(p) == \A i \in DOMAIN p : p[i] \in Marks

\* Variant of LoopBranch: the branch for one remaining word is left out.
LoopBranchNoFound(curr_count) ==
    IF curr_count = 0 THEN "empty" ELSE "recommended"

\* the if / elif / else on curr_count
LoopBranch(curr_count) ==
    IF curr_count = 0 THEN "empty"
    ELSE IF curr_count = 1 THEN "found"
    ELSE "recommended"

\* guess = input(...).strip().lower(), for every line the user types
ReadGuesses == {Lower(Strip(typed)) : typed \in TypedGuesses}

\* pattern = input(...).strip().upper(), for every line the user types
ReadPatterns == {Upper(Strip(typed)) : typed \in TypedPatterns}

\* guess == 'exit': break
loop_exit ==
    /\ pc # "init" /\ running
    /\ \E g \in ReadGuesses :
          /\ g = exit
          /\ guess' = g
    /\ running' = FALSE
    /\ prev_words' = possible_words
    /\ pc' = "exit"
    /\ UNCHANGED <<words, possible_words, pattern, scores, ranked, nfilter, history>>
    /\ UNCHANGED <<primes_vars, game_vars, snake_vars, maze_vars>>

\* Invalid length!: continue
loop_bad_guess ==
    /\ pc # "init" /\ running
    /\ \E g \in ReadGuesses :
          /\ g # exit
          /\ ~GuessLenOk(g)
          /\ guess' = g
    /\ prev_words' = possible_words
    /\ pc' = "bad_guess"
    /\ UNCHANGED <<words, possible_words, pattern, scores, ranked, nfilter, running,
                   history>>
    /\ UNCHANGED <<primes_vars, game_vars, snake_vars, maze_vars>>

\* Pattern must be 5 chars! / Use only G, Y, X!: continue
loop_bad_pattern ==
    /\ pc # "init" /\ running
    /\ \E g \in ReadGuesses, p \in ReadPatterns :
          /\ g # exit
          /\ GuessLenOk(g)
          /\ ~PatternLenOk(p) \/ ~PatternCharsOk(p)
          /\ guess' = g
          /\ pattern' = p
    /\ prev_words' = possible_words
    /\ pc' = "bad_pattern"
    /\ UNCHANGED <<words, possible_words, scores, ranked, nfilter, running, history>>
    /\ UNCHANGED <<primes_vars, game_vars, snake_vars, maze_vars>>

\* filter_words(guess, pattern), then the report on what is left
loop_filter ==
    /\ pc # "init" /\ running
    /\ \E g \in ReadGuesses, p \in ReadPatterns :
          /\ g # exit
          /\ GuessLenOk(g)
          /\ PatternLenOk(p) /\ PatternCharsOk(p)
          /\ guess' = g
          /\ pattern' = p
          /\ \E new \in {FilterWords(possible_words, g, p)} :
                \E branch \in {LoopBranch(Len(new))} :
                   /\ possible_words' = new
                   /\ pc' = branch
                   /\ running' = (branch \notin {"empty", "found"})
                   /\ ranked' = IF branch = "recommended" THEN Recommend(new)
                                ELSE ranked
    /\ prev_words' = possible_words
    /\ UNCHANGED <<words, scores, nfilter, history>>
    /\ UNCHANGED <<primes_vars, game_vars, snake_vars, maze_vars>>

NextLoop ==
    \/ load_words
    \/ loop_exit
    \/ loop_bad_guess
    \/ loop_bad_pattern
    \/ loop_filter

SpecLoop == Init /\ [][NextLoop]_vars

----------------------------------------------------------------------------
(* filter_words called directly, with any two strings as arguments.  With    *)
(* these arguments no mark G or Y is paired with a position past the end of  *)
(* a word, so word[i] is always defined.                                     *)

\* the guess arguments: two words, and strings of 4, 6 and 0 letters
ArgGuesses ==
    { slate, geese,
      <<"s","l","a","t">>,
      <<"s","l","a","t","e","s">>,
      <<>> }

\* the pattern arguments: G/Y/X patterns, and strings that are too short, too
\* long, empty, or hold other characters
ArgPatterns == ReadPatterns

InitArgs ==
    /\ words \in FilterPools
    /\ possible_words = words
    /\ prev_words = words
    /\ guess \in ArgGuesses
    /\ pattern \in ArgPatterns
    /\ scores = EmptyScores
    /\ ranked = <<>>
    /\ nfilter = 0
    /\ pc = "loaded"
    /\ running = TRUE
    /\ history = <<>>
    /\ PrimesIdle
    /\ GameIdle
    /\ SnakeIdle
    /\ MazeIdle

NextArgs == filter_same

SpecArgs == InitArgs /\ [][NextArgs]_vars

----------------------------------------------------------------------------
(* A session whose filters are recorded: load, then up to MaxFilters calls   *)
(* of filter_words, each with a valid guess and a valid pattern.             *)

\* number of filter_words calls of a recorded session
MaxFilters == 2

\* the guesses of a recorded session
SeqGuesses == {slate, sassy}

\* the patterns of a recorded session: any marks at the first and the last
\* position, X in between
SeqPatterns == {p \in Patterns : p[2] = "X" /\ p[3] = "X" /\ p[4] = "X"}

seq_filter ==
    /\ Len(history) < MaxFilters
    /\ \E g \in SeqGuesses, p \in SeqPatterns :
          /\ filter_words(g, p)
          /\ history' = Append(history, <<g, p>>)
    /\ UNCHANGED nfilter

NextSeq ==
    \/ load_words
    \/ seq_filter

SpecSeq == Init /\ [][NextSeq]_vars

----------------------------------------------------------------------------
(* A session in which the three methods are called in any order: load, then  *)
(* filter_words (up to MaxFilters times), calculate_scores and recommend.    *)

\* the patterns of such a session: any marks at the first two positions, X
\* after them
FramePatterns == {p \in Patterns : p[3] = "X" /\ p[4] = "X" /\ p[5] = "X"}

frame_filter ==
    /\ nfilter < MaxFilters
    /\ \E g \in SeqGuesses, p \in FramePatterns : filter_words(g, p)
    /\ nfilter' = nfilter + 1
    /\ UNCHANGED history

NextFrame ==
    \/ load_words
    \/ frame_filter
    \/ calculate_scores
    \/ recommend

SpecFrame == Init /\ [][NextFrame]_vars

----------------------------------------------------------------------------
(* Prime toolkit (src/tools/primes_toolkit.py): factorize                    *)

\* the arguments of factorize range over -MaxN..MaxN
MaxN == 200

\* int(math.sqrt(m)): the largest r with r * r <= m (math.sqrt is exact to the
\* integer part for every m of the model)
ISqrt(m) == CHOOSE r \in 0..m : r * r <= m /\ (r + 1) * (r + 1) > m

\* while n % i == 0: factors.append(i); n //= i
\* The result is the pair (n, factors).
RECURSIVE DivideOut(_, _, _)
DivideOut(i, m, fs) ==
    IF m % i = 0 THEN DivideOut(i, m \div i, Append(fs, i))
    ELSE [n |-> m, factors |-> fs]

\* Variant of RangeStop: range(3, int(math.sqrt(n)), 2), without the + 1.
RangeStopNoPlusOne(m) == ISqrt(m)

\* the stop value of range(3, int(math.sqrt(n)) + 1, 2), computed once from
\* the n that is left when the factors 2 are out
RangeStop(m) == ISqrt(m) + 1

\* for i in range(3, stop, 2): divide i out
RECURSIVE OddFactors(_, _, _, _)
OddFactors(i, stop, m, fs) ==
    IF i >= stop THEN [n |-> m, factors |-> fs]
    ELSE LET r == DivideOut(i, m, fs)
         IN OddFactors(i + 2, stop, r.n, r.factors)

\* factorize(n)
Factorize(m) ==
    IF m < 2 THEN <<>>
    ELSE LET twos == DivideOut(2, m, <<>>)
             odds == OddFactors(3, RangeStop(twos.n), twos.n, twos.factors)
         IN IF odds.n > 1 THEN Append(odds.factors, odds.n) ELSE odds.factors

InitPrimes ==
    /\ arg_n \in (0 - MaxN)..MaxN
    /\ factors = <<>>
    /\ fpc = "idle"
    /\ words = <<>>
    /\ possible_words = <<>>
    /\ prev_words = <<>>
    /\ guess = <<>>
    /\ pattern = <<>>
    /\ scores = EmptyScores
    /\ ranked = <<>>
    /\ nfilter = 0
    /\ pc = "init"
    /\ running = TRUE
    /\ history = <<>>
    /\ GameIdle
    /\ SnakeIdle
    /\ MazeIdle

factorize ==
    /\ fpc = "idle"
    /\ factors' = Factorize(arg_n)
    /\ fpc' = "returned"
    /\ UNCHANGED <<arg_n, solver_vars, game_vars, snake_vars, maze_vars>>

NextPrimes == factorize

SpecPrimes == InitPrimes /\ [][NextPrimes]_vars

----------------------------------------------------------------------------
(* Tic-tac-toe (src/tools/tic-tac-toe.py): the board, SmartAI and play       *)
(* The squares are 0..8, row by row; a square holds " ", "X" or "O";         *)
(* current_winner is "None" or a letter.                                     *)

Squares == 0..8

\* TicTacToe.available_moves (as a set; the code goes through it in
\* increasing order of the squares)
AvailableMoves(b) == {i \in Squares : b[i] = " "}

\* TicTacToe.empty_squares
EmptySquares(b) == \E i \in Squares : b[i] = " "

\* TicTacToe.num_empty_squares
NumEmptySquares(b) == Cardinality(AvailableMoves(b))

\* Variant of CheckWinner: the diagonals are not checked.
CheckWinnerNoDiagonals(b, square, l) ==
    \/ \A i \in 0..2 : b[(square \div 3) * 3 + i] = l
    \/ \A i \in 0..2 : b[(square % 3) + i * 3] = l

\* TicTacToe.check_winner: the row and the column of the square, and the two
\* diagonals when the square has an even number
CheckWinner(b, square, l) ==
    LET row_ind == square \div 3
        col_ind == square % 3
    IN \/ \A i \in 0..2 : b[row_ind * 3 + i] = l
       \/ \A i \in 0..2 : b[col_ind + i * 3] = l
       \/ /\ square % 2 = 0
          /\ \/ \A i \in {0, 4, 8} : b[i] = l
             \/ \A i \in {2, 4, 6} : b[i] = l

\* SmartAI.opponent
Opponent(l) == IF l = "X" THEN "O" ELSE "X"

\* Variant of BaseCaseWinner: the win of either player ends the search.
BaseCaseAnyWinner(cw, ai) == cw # "None"

\* minimax, base case: state.current_winner == other_player, where
\* other_player is the opponent of the AI
BaseCaseWinner(cw, ai) == cw = Opponent(ai)

\* Variant of UndoWinner: current_winner is not reset when a move is undone.
UndoWinnerKept(w) == w

\* minimax, 3. UNDO MOVE: state.current_winner = None
UndoWinner(w) == "None"

\* TicTacToe.available_moves as the list it is: the empty squares in
\* increasing order
AvailableList(b) ==
    SelectSeq(<<0, 1, 2, 3, 4, 5, 6, 7, 8>>, LAMBDA i : b[i] = " ")

\* math.inf of the initial best score; every score lies within -10..10
Infinity == 100

\* minimax, 4. UPDATE BEST SCORE: the simulated move replaces best only when
\* its score is strictly better for the player
UpdateBest(player, ai, best, square, score) ==
    IF \/ player = ai /\ score > best.score
       \/ player # ai /\ score < best.score
    THEN [position |-> square, score |-> score]
    ELSE best

\* SmartAI.minimax(state, player) for the AI playing ai; state is the board b
\* and current_winner cw.  The result is the dict (position, score), with
\* position -1 for None, together with what the call leaves in state.board
\* and state.current_winner.
\* MinimaxLoop is the for loop over moves, the list of the squares that were
\* available when the loop began, from its k-th entry on: it sets the square,
\* sets current_winner when the move wins (otherwise current_winner stays
\* what it is), recurses for the other player, undoes the move, updates best
\* and goes on from the state the undo left.
RECURSIVE Minimax(_, _, _, _), MinimaxLoop(_, _, _, _, _, _, _)
Minimax(b, cw, player, ai) ==
    IF BaseCaseWinner(cw, ai)
    THEN [position |-> -1,
          score |-> IF Opponent(ai) = ai THEN NumEmptySquares(b) + 1
                    ELSE -1 * (NumEmptySquares(b) + 1),
          board |-> b, winner |-> cw]
    ELSE IF ~EmptySquares(b)
    THEN [position |-> -1, score |-> 0, board |-> b, winner |-> cw]
    ELSE CHOOSE ret \in
            { MinimaxLoop(b, cw, player, ai, moves, 1,
                          [position |-> -1,
                           score |-> IF player = ai THEN -1 * Infinity
                                     ELSE Infinity]) :
                moves \in {AvailableList(b)} } : TRUE

MinimaxLoop(b, cw, player, ai, moves, k, best) ==
    IF k > Len(moves)
    THEN [position |-> best.position, score |-> best.score,
          board |-> b, winner |-> cw]
    ELSE CHOOSE ret \in
            { MinimaxLoop(step.board, step.winner, player, ai, moves, k + 1,
                          step.best) :
                step \in
                    { [board |-> [sim.board EXCEPT ![moves[k]] = " "],
                       winner |-> UndoWinner(sim.winner),
                       best |-> UpdateBest(player, ai, best, moves[k], sim.score)] :
                        sim \in
                            {Minimax([b EXCEPT ![moves[k]] = player],
                                     IF CheckWinner([b EXCEPT ![moves[k]] = player],
                                                    moves[k], player)
                                     THEN player ELSE cw,
                                     IF player = ai THEN Opponent(ai) ELSE ai,
                                     ai)} } } : TRUE

\* SmartAI.get_move: the square it returns (position) and what the call
\* leaves in the game (board, winner); the score of minimax is dropped by
\* the caller
SmartAIGetMove(b, cw, ai) ==
    IF NumEmptySquares(b) = 9
    THEN [position |-> 4, board |-> b, winner |-> cw]
    ELSE Minimax(b, cw, ai, ai)

\* One pass of the while loop of play with the move square of the player
\* whose turn it is: make_move (which refuses an occupied square and leaves
\* everything as it is), then return letter if it won, else switch the
\* letter; when no square is left the loop ends and play returns Draw.
PlayMove(square) ==
    LET moved == [board EXCEPT ![square] = letter]
        won == CheckWinner(moved, square, letter)
    IN IF board[square] = " "
       THEN /\ board' = moved
            /\ current_winner' = IF won THEN letter ELSE current_winner
            /\ letter' = IF won THEN letter ELSE Opponent(letter)
            /\ result' = IF won THEN letter
                         ELSE IF ~EmptySquares(moved) THEN "Draw"
                         ELSE "None"
       ELSE UNCHANGED <<board, current_winner, letter, result>>

\* the human opens the game on one of the squares 0..MaxOpening
MaxOpening == 1

\* the squares the human chooses from: any available square, after an
\* opening within the bound
HumanSquares(b) ==
    IF NumEmptySquares(b) = 9 THEN AvailableMoves(b) \cap (0..MaxOpening)
    ELSE AvailableMoves(b)

\* the human player X types an available square (HumanPlayer.get_move asks
\* again until the square is one)
human_move ==
    /\ result = "None" /\ letter = "X" /\ EmptySquares(board)
    /\ \E square \in HumanSquares(board) : PlayMove(square)
    /\ UNCHANGED <<chosen, solver_vars, primes_vars, snake_vars, maze_vars>>

\* square = o_player.get_move(game): the SmartAI playing O searches
ai_think ==
    /\ result = "None" /\ letter = "O" /\ EmptySquares(board)
    /\ chosen = -1
    /\ \E got \in {SmartAIGetMove(board, current_winner, "O")} :
          /\ chosen' = got.position
          /\ board' = got.board
          /\ current_winner' = got.winner
    /\ UNCHANGED <<letter, result, solver_vars, primes_vars, snake_vars, maze_vars>>

\* game.make_move(square, letter) with the square of the SmartAI
ai_play ==
    /\ result = "None" /\ letter = "O"
    /\ chosen # -1
    /\ PlayMove(chosen)
    /\ chosen' = -1
    /\ UNCHANGED <<solver_vars, primes_vars, snake_vars, maze_vars>>

\* main_menu, choice 1: a new TicTacToe, HumanPlayer('X') against SmartAI('O')
InitGame ==
    /\ GameIdle
    /\ SnakeIdle
    /\ MazeIdle
    /\ PrimesIdle
    /\ words = <<>>
    /\ possible_words = <<>>
    /\ prev_words = <<>>
    /\ guess = <<>>
    /\ pattern = <<>>
    /\ scores = EmptyScores
    /\ ranked = <<>>
    /\ nfilter = 0
    /\ pc = "init"
    /\ running = TRUE
    /\ history = <<>>

NextGame ==
    \/ human_move
    \/ ai_think
    \/ ai_play

SpecGame == InitGame /\ [][NextGame]_vars

\* play(game, x_player, o_player) with players whose get_move returns any
\* square 0..8, occupied or not, and leaves the game alone: one pass of the
\* while loop
player_move ==
    /\ result = "None" /\ EmptySquares(board)
    /\ \E square \in Squares : PlayMove(square)
    /\ UNCHANGED <<chosen, solver_vars, primes_vars, snake_vars, maze_vars>>

NextPlay == player_move

SpecPlay == InitGame /\ [][NextPlay]_vars

----------------------------------------------------------------------------
(* The snake game (src/tools/snake_game.py): the game loop of SnakeGame.run, *)
(* handle_input and update_game.  A cell is <<row, col>>.  The power-ups     *)
(* act on the loop through the INVINCIBLE effect only (the others change the *)
(* score, the delay and the length of the tail): whether the effect is       *)
(* active at a tick depends on random spawns and on the clock, so each tick  *)
(* takes either value.                                                       *)

\* game_area_height and game_area_width
AreaHeight == 5
AreaWidth == 6

\* the snake grows no longer than this (body and pending growth together)
MaxLength == 5

\* Snake.__init__: start_length
StartLength == 3

Directions == {"UP", "DOWN", "LEFT", "RIGHT"}

\* Direction.value
DirectionValue(d) ==
    CASE d = "UP" -> <<-1, 0>>
      [] d = "DOWN" -> <<1, 0>>
      [] d = "LEFT" -> <<0, -1>>
      [] d = "RIGHT" -> <<0, 1>>

\* handle_input: the dict opposite
OppositeDirection(d) ==
    CASE d = "UP" -> "DOWN"
      [] d = "DOWN" -> "UP"
      [] d = "LEFT" -> "RIGHT"
      [] d = "RIGHT" -> "LEFT"

\* Snake.check_collision: the head is on the border or on another segment
CheckCollision(body, height, width) ==
    LET head == body[1]
    IN \/ head[1] <= 0 \/ head[1] >= height - 1
       \/ head[2] <= 0 \/ head[2] >= width - 1
       \/ \E k \in 2..Len(body) : body[k] = head

\* update_game, invincible: the new head wraps around the game area and is
\* moved off row 0 and column 0
WrapAround(new_head) ==
    LET r == (new_head[1] + AreaHeight) % AreaHeight
        c == (new_head[2] + AreaWidth) % AreaWidth
    IN <<IF r = 0 THEN 1 ELSE r, IF c = 0 THEN 1 ELSE c>>

\* Snake.move
SnakeMove(body, pending, new_head) ==
    IF pending > 0 THEN <<new_head>> \o body
    ELSE <<new_head>> \o SubSeq(body, 1, Len(body) - 1)

\* spawn_food: a random cell of rows 2..height-2 and columns 2..width-2 that
\* is not on the snake
FoodCells(body) ==
    {cell \in (2..(AreaHeight - 2)) \X (2..(AreaWidth - 2)) :
        \A k \in 1..Len(body) : body[k] # cell}

\* initialize_game
InitializeGame ==
    /\ snake_body' = <<<<AreaHeight \div 2, AreaWidth \div 2>>>>
    /\ snake_direction' = "RIGHT"
    /\ grow_pending' = StartLength - 1
    /\ food' \in FoodCells(snake_body')
    /\ paused' = FALSE
    /\ game_over' = FALSE
    /\ snake_running' = TRUE
    /\ last_move' = "None"

\* handle_input, key q: the loop ends after this pass
key_quit ==
    /\ spc = "input"
    /\ snake_running' = FALSE
    /\ spc' = "update"
    /\ UNCHANGED <<snake_body, snake_direction, grow_pending, food, paused, game_over,
                   last_move>>
    /\ UNCHANGED <<solver_vars, primes_vars, game_vars, maze_vars>>

\* handle_input, key p
key_pause ==
    /\ spc = "input"
    /\ paused' = ~paused
    /\ spc' = "update"
    /\ UNCHANGED <<snake_body, snake_direction, grow_pending, food, game_over,
                   snake_running, last_move>>
    /\ UNCHANGED <<solver_vars, primes_vars, game_vars, maze_vars>>

\* handle_input, a direction key: the direction changes unless the new one
\* is the opposite of snake.direction
key_direction ==
    /\ spc = "input"
    /\ \E new_direction \in Directions :
          snake_direction' =
              IF new_direction # OppositeDirection(snake_direction)
              THEN new_direction ELSE snake_direction
    /\ spc' = "update"
    /\ UNCHANGED <<snake_body, grow_pending, food, paused, game_over, snake_running,
                   last_move>>
    /\ UNCHANGED <<solver_vars, primes_vars, game_vars, maze_vars>>

\* handle_input, no key waiting (getch returns -1) or any other key
key_none ==
    /\ spc = "input"
    /\ spc' = "update"
    /\ UNCHANGED <<snake_body, snake_direction, grow_pending, food, paused, game_over,
                   snake_running, last_move>>
    /\ UNCHANGED <<solver_vars, primes_vars, game_vars, maze_vars>>

\* where the game loop goes after update_game: show_game_over when the game
\* is over, the next pass while running, else out of the loop
AfterUpdate(over) ==
    IF over THEN "over" ELSE IF snake_running THEN "input" ELSE "idle"

\* update_game while paused: nothing moves
update_paused ==
    /\ spc = "update"
    /\ paused \/ game_over
    /\ spc' = AfterUpdate(game_over)
    /\ UNCHANGED <<snake_body, snake_direction, grow_pending, food, paused, game_over,
                   snake_running, last_move>>
    /\ UNCHANGED <<solver_vars, primes_vars, game_vars, maze_vars>>

\* update_game, not invincible, the head has hit a wall or the snake
update_collision ==
    /\ spc = "update"
    /\ ~paused /\ ~game_over
    /\ CheckCollision(snake_body, AreaHeight, AreaWidth)
    /\ game_over' = TRUE
    /\ spc' = AfterUpdate(TRUE)
    /\ UNCHANGED <<snake_body, snake_direction, grow_pending, food, paused,
                   snake_running, last_move>>
    /\ UNCHANGED <<solver_vars, primes_vars, game_vars, maze_vars>>

\* update_game moves the snake one cell in snake.direction (wrapped around
\* when invincible) and lets it eat the food it reaches
update_move ==
    /\ spc = "update"
    /\ ~paused /\ ~game_over
    /\ \E invincible \in BOOLEAN :
          /\ invincible \/ ~CheckCollision(snake_body, AreaHeight, AreaWidth)
          /\ LET head == snake_body[1]
                 delta == DirectionValue(snake_direction)
                 ahead == <<head[1] + delta[1], head[2] + delta[2]>>
                 new_head == IF invincible THEN WrapAround(ahead) ELSE ahead
                 moved == SnakeMove(snake_body, grow_pending, new_head)
                 pending == IF grow_pending > 0 THEN grow_pending - 1 ELSE 0
             IN /\ snake_body' = moved
                /\ IF new_head = food
                   THEN /\ Len(moved) + pending + 2 <= MaxLength
                        /\ grow_pending' = pending + 2
                        /\ food' \in FoodCells(moved)
                   ELSE /\ grow_pending' = pending
                        /\ food' = food
    /\ last_move' = snake_direction
    /\ spc' = AfterUpdate(FALSE)
    /\ UNCHANGED <<snake_direction, paused, game_over, snake_running>>
    /\ UNCHANGED <<solver_vars, primes_vars, game_vars, maze_vars>>

\* show_game_over returns restart: initialize_game and on with the loop
game_restart ==
    /\ spc = "over"
    /\ InitializeGame
    /\ spc' = "input"
    /\ UNCHANGED <<solver_vars, primes_vars, game_vars, maze_vars>>

\* show_game_over returns menu or quit: the game loop is left
game_leave ==
    /\ spc = "over"
    /\ spc' = "idle"
    /\ UNCHANGED <<snake_body, snake_direction, grow_pending, food, paused, game_over,
                   snake_running, last_move>>
    /\ UNCHANGED <<solver_vars, primes_vars, game_vars, maze_vars>>

\* run after show_menu and initialize_game: the first pass of the game loop
InitSnake ==
    /\ snake_body = <<<<AreaHeight \div 2, AreaWidth \div 2>>>>
    /\ snake_direction = "RIGHT"
    /\ grow_pending = StartLength - 1
    /\ food \in FoodCells(snake_body)
    /\ paused = FALSE
    /\ game_over = FALSE
    /\ snake_running = TRUE
    /\ last_move = "None"
    /\ spc = "input"
    /\ PrimesIdle
    /\ GameIdle
    /\ MazeIdle
    /\ words = <<>>
    /\ possible_words = <<>>
    /\ prev_words = <<>>
    /\ guess = <<>>
    /\ pattern = <<>>
    /\ scores = EmptyScores
    /\ ranked = <<>>
    /\ nfilter = 0
    /\ pc = "init"
    /\ running = TRUE
    /\ history = <<>>

NextSnake ==
    \/ key_quit
    \/ key_pause
    \/ key_direction
    \/ key_none
    \/ update_paused
    \/ update_collision
    \/ update_move
    \/ game_restart
    \/ game_leave

SpecSnake == InitSnake /\ [][NextSnake]_vars

----------------------------------------------------------------------------
(* The maze tool (src/tools/maze.py): generate_maze and solve_maze.  The     *)
(* grid is maze[y][x] with rows and columns numbered from 0, 1 a wall and 0  *)
(* open; a cell is <<x, y>>.  The dicts g_score and came_from are sets of    *)
(* <<key, value>> pairs, the heap open_set is the set of its entries         *)
(* <<f_score, g_score, pos>>: heappop takes the least entry in the order of  *)
(* tuples, and no entry is pushed twice.                                     *)

\* the sizes of the grids load_maze reads: 2..MaxWidth by 2..MaxHeight
MaxWidth == 4
MaxHeight == 4

\* the width and the height given to generate_maze: 3..MaxSize
MaxSize == 5

\* the calls of carve the interpreter lets nest before it raises
\* RecursionError (1000 frames in CPython unless changed), scaled to the
\* grids of the model
RecursionLimit == 3

\* len(maze) and len(maze[0])
Height(m) == Cardinality(DOMAIN m)
Width(m) == Cardinality(DOMAIN m[0])

\* solve_maze: start and goal
Start == <<1, 1>>
Goal(m) == <<Width(m) - 2, Height(m) - 2>>

Abs(i) == IF i < 0 THEN 0 - i ELSE i

\* solve_maze: heuristic
heuristic(pos, goal) == Abs(pos[1] - goal[1]) + Abs(pos[2] - goal[2])

\* Variant of directions: the step to the left is missing.
directionsNoLeft == {<<1, 0>>, <<0, -1>>, <<0, 1>>}

\* solve_maze: directions
directions == {<<-1, 0>>, <<1, 0>>, <<0, -1>>, <<0, 1>>}

\* solve_maze, the test of a neighbour: inside the grid and open
IsOpen(m, x, y) ==
    /\ 0 <= x /\ x < Width(m)
    /\ 0 <= y /\ y < Height(m)
    /\ m[y][x] = 0

\* the order of Python tuples on heap entries (f_score, g_score, (x, y))
EntryLess(a, b) ==
    \/ a[1] < b[1]
    \/ a[1] = b[1] /\ a[2] < b[2]
    \/ a[1] = b[1] /\ a[2] = b[2] /\ a[3][1] < b[3][1]
    \/ a[1] = b[1] /\ a[2] = b[2] /\ a[3][1] = b[3][1] /\ a[3][2] < b[3][2]

\* Variant of HeapPop: the greatest entry is taken.
HeapPopGreatest(open) ==
    CHOOSE e \in open : \A o \in open \ {e} : EntryLess(o, e)

\* heapq.heappop(open_set): the least entry
HeapPop(open) ==
    CHOOSE e \in open : \A o \in open \ {e} : EntryLess(e, o)

\* the keys of a dict
Keys(dict) == {pair[1] : pair \in dict}

\* dict[key]
Lookup(dict, key) == (CHOOSE pair \in dict : pair[1] = key)[2]

\* solve_maze, the goal is popped: the path is read back along came_from
\* from the goal to the start and reversed
RECURSIVE PathTo(_, _)
PathTo(from, current) ==
    IF current = Start THEN <<Start>>
    ELSE Append(PathTo(from, Lookup(from, current)), current)

\* solve_maze begins: open_set, came_from and g_score before the loop
solve_begin ==
    /\ mpc = "solve"
    /\ open_set' = {<<0, 0, Start>>}
    /\ came_from' = {}
    /\ g_score' = {<<Start, 0>>}
    /\ mpc' = "search"
    /\ UNCHANGED <<maze, stack, path, command>>
    /\ UNCHANGED <<solver_vars, primes_vars, game_vars, snake_vars>>

\* one pass of the while loop that pops the goal: solve_maze returns the path
solve_found ==
    /\ mpc = "search"
    /\ open_set # {}
    /\ \E entry \in {HeapPop(open_set)} :
          /\ entry[3] = Goal(maze)
          /\ open_set' = open_set \ {entry}
          /\ path' = PathTo(came_from, entry[3])
    /\ mpc' = "done"
    /\ UNCHANGED <<maze, stack, came_from, g_score, command>>
    /\ UNCHANGED <<solver_vars, primes_vars, game_vars, snake_vars>>

\* one pass of the while loop that pops another cell: every open neighbour
\* that is not yet in g_score gets its g_score and its came_from and is
\* pushed
solve_expand ==
    /\ mpc = "search"
    /\ open_set # {}
    /\ \E entry \in {HeapPop(open_set)} :
          /\ entry[3] # Goal(maze)
          /\ LET current == entry[3]
                 current_g == entry[2]
                 found == {n \in {<<current[1] + d[1], current[2] + d[2]>> :
                                     d \in directions} :
                               /\ IsOpen(maze, n[1], n[2])
                               /\ n \notin Keys(g_score)}
             IN /\ g_score' = g_score \cup {<<n, current_g + 1>> : n \in found}
                /\ came_from' = came_from \cup {<<n, current>> : n \in found}
                /\ open_set' =
                      (open_set \ {entry}) \cup
                      {<<current_g + 1 + heuristic(n, Goal(maze)), current_g + 1, n>> :
                          n \in found}
    /\ UNCHANGED <<maze, stack, path, mpc, command>>
    /\ UNCHANGED <<solver_vars, primes_vars, game_vars, snake_vars>>

\* open_set is empty: solve_maze returns []
solve_fail ==
    /\ mpc = "search"
    /\ open_set = {}
    /\ path' = <<>>
    /\ mpc' = "done"
    /\ UNCHANGED <<maze, stack, open_set, came_from, g_score, command>>
    /\ UNCHANGED <<solver_vars, primes_vars, game_vars, snake_vars>>

\* the grids of 0 and 1 of width w and height h
Grids(w, h) == [0..(h - 1) -> [0..(w - 1) -> {0, 1}]]

\* the grids load_maze reads whose start cell is open
LoadedMazes ==
    {m \in UNION {Grids(w, h) : w \in 2..MaxWidth, h \in 2..MaxHeight} : m[1][1] = 0}

\* main, command solve: maze = load_maze(filename), then solve_maze(maze)
LoadMaze ==
    /\ command = "solve"
    /\ maze \in LoadedMazes
    /\ stack = <<>>
    /\ mpc = "solve"

\* generate_maze: an even width or height is made odd
MadeOdd(n) == IF n % 2 = 0 THEN n + 1 ELSE n

\* carve: dirs
CarveDirs == {<<0, -2>>, <<2, 0>>, <<0, 2>>, <<-2, 0>>}

\* Variant of OpenPassage: the wall between the two cells stays.
OpenPassageNone(m, cx, cy, dx, dy) == m

\* carve: maze[cy + dy//2][cx + dx//2] = 0
OpenPassage(m, cx, cy, dx, dy) ==
    [m EXCEPT ![cy + dy \div 2][cx + dx \div 2] = 0]

\* carve, the test of a direction: the cell two steps away is inside the
\* border and still a wall
CanCarve(m, nx, ny) ==
    /\ 1 <= nx /\ nx < Width(m) - 1
    /\ 1 <= ny /\ ny < Height(m) - 1
    /\ m[ny][nx] = 1

\* a call of carve after its first two statements: the cell is open and the
\* shuffled dirs are all to come.  The order random.shuffle gives them is
\* the order in which carve_try takes them.
CarveCall(cx, cy) == [cx |-> cx, cy |-> cy, dirs |-> CarveDirs]

\* the for loop of the innermost carve takes its next direction: when the
\* cell two steps away can be carved the wall between is opened and carve
\* is called on that cell
carve_try ==
    /\ mpc = "carve"
    /\ stack # <<>>
    /\ LET top == stack[Len(stack)]
       IN /\ top.dirs # {}
          /\ \E d \in top.dirs :
                LET nx == top.cx + d[1]
                    ny == top.cy + d[2]
                    rest == [stack EXCEPT ![Len(stack)].dirs = top.dirs \ {d}]
                IN IF CanCarve(maze, nx, ny)
                   THEN /\ Len(stack) < RecursionLimit
                        /\ maze' = [OpenPassage(maze, top.cx, top.cy, d[1], d[2])
                                       EXCEPT ![ny][nx] = 0]
                        /\ stack' = Append(rest, CarveCall(nx, ny))
                   ELSE /\ maze' = maze
                        /\ stack' = rest
    /\ UNCHANGED <<open_set, came_from, g_score, path, mpc, command>>
    /\ UNCHANGED <<solver_vars, primes_vars, game_vars, snake_vars>>

\* the call carve(nx, ny) would nest deeper than the interpreter allows: the
\* wall between is open already, the call raises RecursionError, every
\* carve in progress is left and main prints the error and exits
carve_overflow ==
    /\ mpc = "carve"
    /\ stack # <<>>
    /\ Len(stack) >= RecursionLimit
    /\ LET top == stack[Len(stack)]
       IN \E d \in top.dirs :
             /\ CanCarve(maze, top.cx + d[1], top.cy + d[2])
             /\ maze' = OpenPassage(maze, top.cx, top.cy, d[1], d[2])
    /\ stack' = <<>>
    /\ mpc' = "error"
    /\ UNCHANGED <<open_set, came_from, g_score, path, command>>
    /\ UNCHANGED <<solver_vars, primes_vars, game_vars, snake_vars>>

\* the for loop of the innermost carve is over: the call returns
carve_return ==
    /\ mpc = "carve"
    /\ stack # <<>>
    /\ stack[Len(stack)].dirs = {}
    /\ stack' = SubSeq(stack, 1, Len(stack) - 1)
    /\ UNCHANGED <<maze, open_set, came_from, g_score, path, mpc, command>>
    /\ UNCHANGED <<solver_vars, primes_vars, game_vars, snake_vars>>

\* carve(1, 1) has returned: start and exit are opened and generate_maze
\* returns; main goes on to solve_maze (gen --solve)
generate_return ==
    /\ mpc = "carve"
    /\ stack = <<>>
    /\ maze' = [[maze EXCEPT ![1][1] = 0]
                   EXCEPT ![Height(maze) - 2][Width(maze) - 2] = 0]
    /\ mpc' = "solve"
    /\ UNCHANGED <<stack, open_set, came_from, g_score, path, command>>
    /\ UNCHANGED <<solver_vars, primes_vars, game_vars, snake_vars>>

\* main, command gen with --solve: generate_maze(width, height) at the first
\* call carve(1, 1): the grid is all walls but the cell (1, 1)
GenerateMaze ==
    /\ command = "gen"
    /\ \E width \in 3..MaxSize, height \in 3..MaxSize :
          maze = [y \in 0..(MadeOdd(height) - 1) |->
                     [x \in 0..(MadeOdd(width) - 1) |->
                         IF x = 1 /\ y = 1 THEN 0 ELSE 1]]
    /\ stack = <<CarveCall(1, 1)>>
    /\ mpc = "carve"

\* main of maze.py after parse_args, for either command
InitMaze ==
    /\ LoadMaze \/ GenerateMaze
    /\ open_set = {}
    /\ came_from = {}
    /\ g_score = {}
    /\ path = <<>>
    /\ PrimesIdle
    /\ GameIdle
    /\ SnakeIdle
    /\ words = <<>>
    /\ possible_words = <<>>
    /\ prev_words = <<>>
    /\ guess = <<>>
    /\ pattern = <<>>
    /\ scores = EmptyScores
    /\ ranked = <<>>
    /\ nfilter = 0
    /\ pc = "init"
    /\ running = TRUE
    /\ history = <<>>

NextMaze ==
    \/ carve_try
    \/ carve_overflow
    \/ carve_return
    \/ generate_return
    \/ solve_begin
    \/ solve_found
    \/ solve_expand
    \/ solve_fail

SpecMaze == InitMaze /\ [][NextMaze]_vars

----------------------------------------------------------------------------
(* Properties of the Wordle solver                                           *)

AllCorrect == [i \in 1..WordLen |-> "G"]

\* number of occurrences of letter c in word w
Occurrences(c, w) == Cardinality({j \in DOMAIN w : w[j] = c})

NoDuplicates(s) == \A i, j \in DOMAIN s : s[i] = s[j] => i = j

\* The standard Wordle feedback of guess g against secret s: exact matches
\* are G; the occurrences of a letter of s that are not exact matches are
\* given, left to right, to the non-G positions of g holding that letter (Y);
\* what is left is X.
Feedback(g, s) ==
    LET greens == {i \in DOMAIN g : g[i] = s[i]}
        unmatched(c) == Cardinality({j \in DOMAIN s : j \notin greens /\ s[j] = c})
        earlier(i) == Cardinality({j \in DOMAIN g : j < i /\ j \notin greens /\ g[j] = g[i]})
    IN [i \in DOMAIN g |->
           IF i \in greens THEN "G"
           ELSE IF earlier(i) < unmatched(g[i]) THEN "Y"
           ELSE "X"]

RECURSIVE SumOver(_, _)
SumOver(f, S) ==
    IF S = {} THEN 0
    ELSE LET x == CHOOSE y \in S : TRUE IN f[x] + SumOver(f, S \ {x})

\* freq(c): the number of entries of the pool that contain c
LetterFreq(pool, c) == Cardinality({k \in DOMAIN pool : c \in Range(pool[k])})

\* score(w): the sum of freq(c) over the distinct letters c of w
CoverageScore(pool, w) ==
    SumOver([c \in Range(w) |-> LetterFreq(pool, c)], Range(w))

\* The entry of the pool that the i-th entry of ranked stands for: the n-th
\* occurrence of a word in ranked is the n-th occurrence of it in the pool
\* (0 when the pool has no such entry).
RankedPos(i) ==
    LET nth == Cardinality({r \in 1..i : ranked[r] = ranked[i]})
        at == {q \in DOMAIN possible_words :
                 /\ possible_words[q] = ranked[i]
                 /\ Cardinality({r \in 1..q : possible_words[r] = ranked[i]}) = nth}
    IN IF at = {} THEN 0 ELSE CHOOSE q \in at : TRUE

\* C1 - Subset invariant: after load_words and any sequence of filter_words
\* calls, every word of possible_words is a word of the loaded list words.
C1_SubsetInvariant ==
    \A i \in DOMAIN possible_words : possible_words[i] \in Range(words)

\* two filters in a row each removed words, and words are left
C1_Witness ==
    /\ pc = "filtered"
    /\ possible_words # <<>>
    /\ Len(possible_words) < Len(prev_words)
    /\ Len(prev_words) < Len(words)

\* C2 - Monotonic shrink: after each filter_words call the pool has at most
\* as many candidates as it had before the call.
C2_MonotonicShrink ==
    pc = "filtered" => Len(possible_words) <= Len(prev_words)

\* a filter on an already reduced pool of several words that removes nothing
C2_Witness ==
    /\ pc = "filtered"
    /\ Len(prev_words) < Len(words)
    /\ Len(possible_words) = Len(prev_words)
    /\ Len(possible_words) >= 2

\* C3 - Correct-pattern self-consistency: a secret s of the pool stays in the
\* pool after filter_words(g, p) when p is the Wordle feedback of g against s.
C3_SecretKept ==
    pc = "filtered" =>
        \A k \in DOMAIN prev_words :
            Feedback(guess, prev_words[k]) = pattern
                => prev_words[k] \in Range(possible_words)

\* the feedback of a secret of the pool holds G, Y and X, the guess repeats a
\* letter, and the filter removed other words
C3_Witness ==
    /\ pc = "filtered"
    /\ nfilter = 1
    /\ \E k \in DOMAIN prev_words : Feedback(guess, prev_words[k]) = pattern
    /\ Range(pattern) = Marks
    /\ \E i, j \in DOMAIN guess :
          i # j /\ guess[i] = guess[j] /\ pattern[i] # pattern[j]
    /\ Len(possible_words) < Len(prev_words)

\* C4 - All-Correct termination: with a guess of the pool and the pattern
\* GGGGG, the pool after filter_words is exactly the candidates equal to the
\* guess, in pool order: one candidate when the list has no duplicates.
C4_AllCorrect ==
    (pc = "filtered" /\ pattern = AllCorrect /\ guess \in Range(prev_words)) =>
        /\ possible_words = SelectSeq(prev_words, LAMBDA w : w = guess)
        /\ NoDuplicates(words) => possible_words = <<guess>>

\* the guess occurs twice in the pool, among other words, and both stay
C4_Witness ==
    /\ pc = "filtered"
    /\ nfilter = 1
    /\ pattern = AllCorrect
    /\ guess \in Range(prev_words)
    /\ Len(possible_words) = 2
    /\ Len(prev_words) > 2

\* C5 - Duplicate-letter correctness: when the guess holds a letter c at
\* several positions, one of them marked G and all the others marked X, every
\* candidate that filter_words keeps has c at the G position and exactly one
\* c; no candidate with two or more c is kept.
C5_DuplicateLetter ==
    pc = "filtered" =>
        \A i \in DOMAIN guess :
            LET c == guess[i]
                others == {j \in DOMAIN guess : j # i /\ guess[j] = c}
            IN (/\ others # {}
                /\ pattern[i] = "G"
                /\ \A j \in others : pattern[j] = "X")
               => \A k \in DOMAIN possible_words :
                     /\ possible_words[k][i] = c
                     /\ Occurrences(c, possible_words[k]) = 1

\* guess sassy, first s correct and the other s absent: a word with one s is
\* kept and a word with two s is removed
C5_Witness ==
    /\ pc = "filtered"
    /\ nfilter = 1
    /\ guess = sassy
    /\ pattern[1] = "G" /\ pattern[3] = "X" /\ pattern[4] = "X"
    /\ \E k \in DOMAIN possible_words : Occurrences("s", possible_words[k]) = 1
    /\ \E k \in DOMAIN prev_words :
          /\ prev_words[k][1] = "s"
          /\ Occurrences("s", prev_words[k]) = 2
          /\ prev_words[k] \notin Range(possible_words)

\* C6 - Idempotence: filter_words(guess, pattern) called twice in a row leaves
\* the pool the first call left (same words, same order).
C6_Idempotent ==
    (pc = "filtered" /\ nfilter >= 2) => possible_words = prev_words

\* the first call removed some words and kept others, and the second call ran
C6_Witness ==
    /\ pc = "filtered"
    /\ nfilter = 2
    /\ possible_words # <<>>
    /\ Len(possible_words) < Len(words)

\* C7 - Empty pool: recommend on an empty pool returns the empty list, and
\* filter_words on an empty pool leaves it empty.
C7_EmptyPool ==
    /\ (pc = "recommended" /\ possible_words = <<>>) => ranked = <<>>
    /\ (pc = "filtered" /\ prev_words = <<>>) => possible_words = <<>>

\* a non-empty list was filtered down to nothing, filtered again while empty,
\* and recommend was then called
C7_Witness ==
    /\ pc = "recommended"
    /\ words # <<>>
    /\ prev_words = <<>>
    /\ possible_words = <<>>

\* C8 - Ranking order: recommend returns entries of the pool in non-increasing
\* order of score, entries of equal score in pool order; for the pool
\* [slate, crane, trace] it returns all three by descending score.
C8_RankingOrder ==
    pc = "recommended" =>
        /\ \A i \in DOMAIN ranked : RankedPos(i) # 0
        /\ \A i, j \in DOMAIN ranked :
              i < j =>
                LET si == CoverageScore(possible_words, ranked[i])
                    sj == CoverageScore(possible_words, ranked[j])
                IN /\ si >= sj
                   /\ si = sj => RankedPos(i) < RankedPos(j)
        /\ possible_words = <<slate, crane, trace>>
              => ranked = <<trace, crane, slate>>

\* two different words of equal score and a word of another score are ranked
C8_Witness ==
    /\ pc = "recommended"
    /\ \E i, j \in DOMAIN ranked :
          /\ i < j
          /\ ranked[i] # ranked[j]
          /\ CoverageScore(possible_words, ranked[i])
                = CoverageScore(possible_words, ranked[j])
    /\ \E i, j \in DOMAIN ranked :
          CoverageScore(possible_words, ranked[i])
              > CoverageScore(possible_words, ranked[j])

\* C9 - Scoring: calculate_scores gives every word w of the pool the sum, over
\* the distinct letters c of w, of the number of pool entries containing c.
C9_Scoring ==
    pc = "scored" =>
        /\ DOMAIN scores = Range(possible_words)
        /\ \A w \in Range(possible_words) :
              scores[w] = CoverageScore(possible_words, w)

\* the pool holds a word with a repeated letter, a word twice, and other words
C9_Witness ==
    /\ pc = "scored"
    /\ \E k \in DOMAIN possible_words :
          Cardinality(Range(possible_words[k])) < Len(possible_words[k])
    /\ ~NoDuplicates(possible_words)
    /\ Cardinality(Range(possible_words)) >= 3

\* C10 - Top-K: recommend returns min(10, size of pool) entries, each a word
\* of the pool, and no entry left out has a higher score than a returned one.
C10_TopK ==
    pc = "recommended" =>
        /\ Len(ranked) = Min(10, Len(possible_words))
        /\ \A i \in DOMAIN ranked : ranked[i] \in Range(possible_words)
        /\ \A i \in DOMAIN ranked : RankedPos(i) # 0
        /\ \A i, j \in DOMAIN ranked : i # j => RankedPos(i) # RankedPos(j)
        /\ \A k \in 1..Len(possible_words) :
              k \notin {RankedPos(i) : i \in DOMAIN ranked} =>
                 \A i \in DOMAIN ranked :
                    CoverageScore(possible_words, possible_words[k])
                        <= CoverageScore(possible_words, ranked[i])

\* a pool of more than 10 entries, of which 10 are returned
C10_Witness ==
    /\ pc = "recommended"
    /\ Len(possible_words) > 10
    /\ Len(ranked) = 10

----------------------------------------------------------------------------
(* Properties of filter_words stated mark by mark                            *)

\* the positions of the guess and the pattern that zip() pairs
Positions == 1..ZipLen(guess, pattern)

\* the number of positions at which the guess holds c and the mark is G or Y
MarkedCount(c) ==
    Cardinality({i \in Positions : guess[i] = c /\ pattern[i] \in {"G", "Y"}})

\* some position at which the guess holds c is marked X
HasGray(c) == \E i \in Positions : guess[i] = c /\ pattern[i] = "X"

\* word holds none of the letters of the guess
SharesNoLetter(word) == \A i \in DOMAIN guess : Occurrences(guess[i], word) = 0

\* the same letter is marked X at a position and Y at a later position
GrayBeforeYellow ==
    \E i \in Positions, j \in Positions :
        i < j /\ guess[i] = guess[j] /\ pattern[i] = "X" /\ pattern[j] = "Y"

\* C18: every word that stays after filter_words(guess, pattern) holds the
\* letter of the guess at each position marked G, and a letter other than the
\* letter of the guess at each position marked Y.
C18_PositionalMarks ==
    pc = "filtered" =>
        \A k \in 1..Len(possible_words) : \A i \in Positions :
            /\ pattern[i] = "G" => possible_words[k][i] = guess[i]
            /\ pattern[i] = "Y" => possible_words[k][i] # guess[i]

\* a filter whose pattern holds a G and a Y removed a word and kept a word
C18_Witness ==
    /\ pc = "filtered"
    /\ nfilter = 1
    /\ \E i \in Positions : pattern[i] = "G"
    /\ \E i \in Positions : pattern[i] = "Y"
    /\ possible_words # <<>>
    /\ Len(possible_words) < Len(prev_words)

\* C19: for each letter c of the guess, with k the number of positions of c
\* marked G or Y, every word that stays holds c at least k times, and exactly
\* k times if some position of c is marked X; after an all-X pattern the
\* words that stay are exactly the words that share no letter with the guess.
C19_LetterCounts ==
    pc = "filtered" =>
        /\ \A k \in 1..Len(possible_words) : \A i \in Positions :
              /\ Occurrences(guess[i], possible_words[k]) >= MarkedCount(guess[i])
              /\ HasGray(guess[i]) =>
                    Occurrences(guess[i], possible_words[k]) = MarkedCount(guess[i])
        /\ (\A i \in Positions : pattern[i] = "X") =>
              possible_words = SelectSeq(prev_words, SharesNoLetter)

\* a letter that the guess holds more than once is marked G or Y at one
\* position and X at another, and a word stays while another is removed
C19_Witness ==
    /\ pc = "filtered"
    /\ nfilter = 1
    /\ \E i \in Positions : HasGray(guess[i]) /\ MarkedCount(guess[i]) >= 1
    /\ possible_words # <<>>
    /\ Len(possible_words) < Len(prev_words)

\* C20: when one letter of the guess is marked X at a position and Y at a
\* later position, filter_words leaves no word at all; with the Y at the
\* earlier position and the X at the later one a word can stay (shine stays
\* for the guess geese and the pattern X Y X Y X).
C20_GrayBeforeYellow ==
    /\ (pc = "filtered" /\ GrayBeforeYellow) => possible_words = <<>>
    /\ WordMatches(shine, geese, <<"X", "Y", "X", "Y", "X">>)

\* X before Y on one letter emptied a pool that held a word with that letter
\* away from the position of the Y
C20_Witness ==
    /\ pc = "filtered"
    /\ nfilter = 1
    /\ \E i \in Positions, j \in Positions :
          /\ i < j /\ guess[i] = guess[j] /\ pattern[i] = "X" /\ pattern[j] = "Y"
          /\ \E k \in 1..Len(prev_words) :
                /\ Occurrences(guess[j], prev_words[k]) > 0
                /\ prev_words[k][j] # guess[j]
    /\ possible_words = <<>>

----------------------------------------------------------------------------
(* Properties of main_loop                                                   *)

\* a pass of the loop has been made
LoopPassed == pc \in {"exit", "bad_guess", "bad_pattern", "empty", "found", "recommended"}

\* the pass ended at one of the two continue statements, before filter_words
Refused == pc \in {"bad_guess", "bad_pattern"}

\* the guess read in the last pass has 5 characters
ValidGuess == Len(guess) = 5

\* the pattern read in the last pass has 5 characters, each G, Y or X
ValidPattern == Len(pattern) = 5 /\ \A i \in DOMAIN pattern : pattern[i] \in {"G", "Y", "X"}

\* the last pass read an invalid guess, or a valid guess and an invalid pattern
InvalidInput == ~ValidGuess \/ (ValidGuess /\ ~ValidPattern)

\* C11: a pass of main_loop in which the caller does not stop (the line typed
\* at the guess prompt is not the command exit) and which reads a guess whose
\* length is not 5, or a pattern whose length is not 5 or which holds a
\* character other than G, Y, X, is refused: filter_words is not called, the
\* pool holds the same words in the same order as before, and the loop goes
\* on to prompt again.  When the caller stops with exit the pool is left as it
\* was too.
C11_InvalidRefused ==
    /\ (LoopPassed /\ InvalidInput /\ guess # exit) =>
          /\ Refused
          /\ possible_words = prev_words
          /\ running
    /\ (LoopPassed /\ guess = exit) =>
          /\ pc = "exit"
          /\ possible_words = prev_words
          /\ ~running

\* a pattern with a character outside G/Y/X was refused after an earlier
\* pass had filtered the pool down to part of the list
C11_Witness ==
    /\ pc = "bad_pattern"
    /\ ValidGuess
    /\ Len(pattern) = 5
    /\ \E i \in DOMAIN pattern : pattern[i] \notin {"G", "Y", "X"}
    /\ possible_words = prev_words
    /\ possible_words # <<>>
    /\ Len(possible_words) < Len(words)
    /\ running

\* C13: after a pass of main_loop that filtered, the loop is still running
\* exactly when 2 or more words are left, and recommend was called in exactly
\* that case; once the loop has stopped no further step is taken (no guess is
\* read, the pool does not change).
C13_StopsAtZeroOrOne ==
    /\ [](pc \in {"empty", "found", "recommended"} =>
            /\ running <=> Len(possible_words) >= 2
            /\ pc = "recommended" <=> Len(possible_words) >= 2
            /\ pc = "empty" <=> Len(possible_words) = 0)
    /\ [][running]_vars

\* a filter left exactly one of several words and the loop stopped
C13_Witness ==
    /\ pc = "found"
    /\ Len(possible_words) = 1
    /\ Len(prev_words) >= 2
    /\ ~running

----------------------------------------------------------------------------
(* Properties of filter_words called with any arguments                      *)

\* C12: a call of filter_words with a guess or a pattern whose length is not
\* 5, or with a pattern that holds a character other than G, Y, X, fails
\* before it touches the pool: it does not complete as a filter, and the pool
\* is as it was before the call.
C12_FilterValidates ==
    (nfilter >= 1 /\ ~(ValidGuess /\ ValidPattern)) =>
        /\ pc # "filtered"
        /\ possible_words = words

\* filter_words completed with the pattern GXXX of 4 marks and removed words
\* from the pool
C12_Witness ==
    /\ nfilter = 1
    /\ pc = "filtered"
    /\ guess = slate
    /\ pattern = <<"G", "X", "X", "X">>
    /\ possible_words # <<>>
    /\ Len(possible_words) < Len(words)

----------------------------------------------------------------------------
(* Properties of a sequence of filters                                       *)

\* word passes the two-pass check of every (guess, pattern) pair filtered so far
PassesAll(word) ==
    \A n \in DOMAIN history : WordMatches(word, history[n][1], history[n][2])

\* C14: after any sequence of valid filters (g1,p1)...(gn,pn) the pool is
\* exactly the words of the loaded list, in the order of the list, that pass
\* the two-pass check of every pair; whether a word stays is decided by the
\* word and the pairs alone.
C14_PoolIsSelection ==
    pc # "init" => possible_words = SelectSeq(words, PassesAll)

\* two different filters, each of which removed words, left part of the list
C14_Witness ==
    /\ Len(history) = 2
    /\ history[1] # history[2]
    /\ possible_words # <<>>
    /\ Len(possible_words) < Len(prev_words)
    /\ Len(prev_words) < Len(words)

----------------------------------------------------------------------------
(* Frame properties of the solver's methods                                  *)

\* the words of the pool are words of the list, in the order of the list
PoolInListOrder ==
    possible_words =
        SelectSeq(words, LAMBDA w : \E k \in DOMAIN possible_words : possible_words[k] = w)

\* C15: a call of calculate_scores or of recommend leaves words and
\* possible_words as they were; a call of filter_words leaves words as it
\* was; once loaded, words never changes, and possible_words changes only in
\* a call of filter_words.
C15_OnlyFilterMutates ==
    [][ /\ pc' \in {"scored", "recommended"} =>
              (words' = words /\ possible_words' = possible_words)
        /\ pc' = "filtered" => words' = words
        /\ pc # "init" => words' = words
        /\ (pc # "init" /\ possible_words' # possible_words) => pc' = "filtered"
      ]_vars

\* with the fallback list loaded and filtered, recommend returned the pool in
\* another order and the pool kept the order of the list
C15_Witness ==
    /\ pc = "recommended"
    /\ words = HARDCODED_FALLBACK
    /\ nfilter >= 1
    /\ Len(possible_words) >= 2
    /\ Len(possible_words) < Len(words)
    /\ Len(ranked) = Len(possible_words)
    /\ ranked # possible_words
    /\ PoolInListOrder

----------------------------------------------------------------------------
(* Properties of factorize                                                   *)

IsPrime(q) == q >= 2 /\ \A d \in 2..(q - 1) : q % d # 0

RECURSIVE Product(_)
Product(fs) == IF fs = <<>> THEN 1 ELSE Head(fs) * Product(Tail(fs))

----------------------------------------------------------------------------
(* Properties of tic-tac-toe against the SmartAI                             *)

\* C16: in a game of the human X, who moves first, against the SmartAI O,
\* play never returns X: the human never wins.
C16_HumanNeverWins == result # "X"

\* the human took 0, 3, 4 and 5 while the AI answered 1, 6 and 2, and play
\* returned X with the middle row
C16_Witness ==
    /\ result = "X"
    /\ current_winner = "X"
    /\ board = [i \in Squares |->
                   IF i \in {0, 3, 4, 5} THEN "X"
                   ELSE IF i \in {1, 6, 2} THEN "O"
                   ELSE " "]

----------------------------------------------------------------------------
(* Properties of the two passes of filter_words                              *)

\* every occurrence of the letter c in word is at a position where the guess
\* holds c and the mark is G
AllAtGreens(word, c) ==
    \A j \in DOMAIN word :
        word[j] = c => (j \in Positions /\ guess[j] = c /\ pattern[j] = "G")

\* the pattern with "-" (a mark that filter_words skips) in place of each X
\* on a letter whose occurrences in word are all at positions marked G
WithoutCoveredGrays(word) ==
    [i \in DOMAIN pattern |->
        IF i \in Positions /\ pattern[i] = "X" /\ AllAtGreens(word, guess[i])
        THEN "-" ELSE pattern[i]]

\* word is one of the words of the list s
InList(word, s) == \E k \in 1..Len(s) : s[k] = word

\* C21: the G marks are accounted before any Y or X mark, wherever they are:
\* an X on a letter c whose occurrences in a word are all at positions marked
\* G never removes the word (the word stays exactly when it would stay with
\* those X marks taken out of the pattern), also when the X is to the left of
\* the G positions.
C21_GreensFirst ==
    (pc = "filtered" /\ nfilter = 1) =>
        \A k \in 1..Len(prev_words) :
            InList(prev_words[k], possible_words)
                <=> WordMatches(prev_words[k], guess, WithoutCoveredGrays(prev_words[k]))

\* a word stayed that holds a letter once, at a position marked G, while the
\* guess holds the same letter further left with the mark X
C21_Witness ==
    /\ pc = "filtered"
    /\ nfilter = 1
    /\ \E k \in 1..Len(possible_words) : \E i \in Positions, j \in Positions :
          /\ i < j
          /\ guess[i] = guess[j]
          /\ pattern[i] = "X"
          /\ pattern[j] = "G"
          /\ Occurrences(guess[j], possible_words[k]) = 1
    /\ Len(possible_words) < Len(prev_words)

\* C22: no false survivors: every word that filter_words(guess, pattern)
\* keeps is a word for which the Wordle feedback of the guess against that
\* word as the secret is exactly the pattern.
C22_NoFalseSurvivors ==
    (pc = "filtered" /\ nfilter = 1) =>
        \A k \in 1..Len(possible_words) :
            Feedback(guess, possible_words[k]) = pattern

\* shine stayed for the guess geese and the pattern X Y X Y X, while the
\* feedback of geese against shine is X X X Y G
C22_Witness ==
    /\ pc = "filtered"
    /\ nfilter = 1
    /\ guess = geese
    /\ pattern = <<"X", "Y", "X", "Y", "X">>
    /\ InList(shine, possible_words)
    /\ Feedback(geese, shine) = <<"X", "X", "X", "Y", "G">>

\* C23: filters commute: two filters applied to the loaded list in the one
\* order leave the same pool (same words, same order) as in the other order.
C23_FiltersCommute ==
    Len(history) = 2 =>
        possible_words =
            FilterWords(FilterWords(words, history[2][1], history[2][2]),
                        history[1][1], history[1][2])

\* two different filters were applied, each removed words, and words are left
C23_Witness ==
    /\ Len(history) = 2
    /\ history[1][1] # history[2][1]
    /\ history[1][2] # history[2][2]
    /\ Len(prev_words) < Len(words)
    /\ Len(possible_words) < Len(prev_words)
    /\ possible_words # <<>>
    /\ FilterWords(words, history[2][1], history[2][2]) # prev_words

\* ---------------------------------------------------------------------------
\* C24: SmartAI.get_move has no side effects: in every reachable position
\* without a winner where the SmartAI is asked for its move, the call leaves
\* game.board and game.current_winner exactly as they were, and the square it
\* returns is an empty square of that board.
C24_GetMoveNoSideEffects ==
    [][(chosen = -1 /\ chosen' # -1) =>
          /\ board' = board
          /\ current_winner' = current_winner
          /\ chosen' \in AvailableMoves(board)]_vars

\* get_move has returned from a search over a board with eight empty squares
C24_Witness ==
    /\ chosen # -1
    /\ NumEmptySquares(board) = 8
    /\ current_winner = "None"

\* square sq is empty and an O on it completes three O in a line
CompletesLine(b, sq, l) ==
    /\ b[sq] = " "
    /\ CheckWinner([b EXCEPT ![sq] = l], sq, l)

\* ---------------------------------------------------------------------------
\* C25: the SmartAI takes an immediate win: whenever O is to move in a
\* reachable position and some empty square completes three O in a line, the
\* square get_move returns is such a square.
C25_TakesImmediateWin ==
    (chosen # -1 /\ \E sq \in Squares : CompletesLine(board, sq, "O"))
        => CompletesLine(board, chosen, "O")

\* get_move has returned in a position where O can complete a line
C25_Witness ==
    /\ chosen # -1
    /\ \E sq \in Squares : CompletesLine(board, sq, "O")

\* the eight lines of the board
Lines ==
    {{0, 1, 2}, {3, 4, 5}, {6, 7, 8}, {0, 3, 6}, {1, 4, 7}, {2, 5, 8},
     {0, 4, 8}, {2, 4, 6}}

\* letter l has three in a row on board b
HasLine(b, l) == \E line \in Lines : \A i \in line : b[i] = l

\* what play has returned agrees with the board
ResultMatchesBoard ==
    /\ result = "X" <=> HasLine(board, "X")
    /\ result = "O" <=> HasLine(board, "O")
    /\ result = "Draw" <=>
          /\ ~EmptySquares(board)
          /\ ~HasLine(board, "X")
          /\ ~HasLine(board, "O")

\* one pass of the loop of play: no occupied square changes, the turn passes
\* only when a square was filled, and a win is completed by the move of
\* this pass
PassRespectsRules ==
    /\ \A i \in Squares : board[i] # " " => board'[i] = board[i]
    /\ letter' # letter =>
          \E i \in Squares : board[i] = " " /\ board' = [board EXCEPT ![i] = letter]
    /\ (result = "None" /\ result' \in {"X", "O"}) =>
          /\ result' = letter
          /\ ~HasLine(board, result')
          /\ \E i \in Squares :
                /\ board[i] = " "
                /\ board' = [board EXCEPT ![i] = letter]
                /\ \E line \in Lines : i \in line /\ \A j \in line : board'[j] = letter

\* ---------------------------------------------------------------------------
\* C26: play returns X or O exactly when that letter has three in a row on
\* the final board, the line being completed by the last move, and Draw
\* exactly when the board is full with no three in a row; an occupied square
\* is never overwritten and the turn passes only after a move is accepted.
C26_GameResult == []ResultMatchesBoard /\ [][PassRespectsRules]_vars

\* play has returned X after a move on the last empty square that completed
\* a diagonal
C26_Witness ==
    /\ result = "X"
    /\ ~EmptySquares(board)
    /\ \/ \A i \in {0, 4, 8} : board[i] = "X"
       \/ \A i \in {2, 4, 6} : board[i] = "X"

\* ---------------------------------------------------------------------------
\* C27: 180-degree turns are prevented: over every sequence of key presses
\* (direction keys, pause and resume) and ticks, the snake never moves in
\* the direction opposite to its previous actual move.
C27_NoReverse ==
    [][(spc = "update" /\ snake_body' # snake_body /\ last_move # "None")
          => last_move' # OppositeDirection(last_move)]_vars

\* the game is paused after a move and the direction has been turned, key by
\* key, to the opposite of that move
C27_Witness ==
    /\ paused
    /\ last_move # "None"
    /\ snake_direction = OppositeDirection(last_move)

\* two cells are next to each other in a row or in a column
Adjacent(a, b) == Abs(a[1] - b[1]) + Abs(a[2] - b[2]) = 1

\* the open cells of a grid
OpenCells(m) ==
    {cell \in (0..(Width(m) - 1)) \X (0..(Height(m) - 1)) : m[cell[2]][cell[1]] = 0}

\* the number of steps of a shortest walk over open cells from the cells of
\* frontier, which are d steps from the start, to target; -1 when there is
\* none.  seen holds the cells at most d steps from the start.
RECURSIVE StepsFrom(_, _, _, _, _)
StepsFrom(m, seen, frontier, d, target) ==
    IF target \in frontier THEN d
    ELSE IF frontier = {} THEN -1
    ELSE CHOOSE steps \in
            { StepsFrom(m, seen \cup next, next, d + 1, target) :
                next \in {{cell \in OpenCells(m) \ seen :
                              \E f \in frontier : Adjacent(cell, f)}} } : TRUE

\* the length of a shortest path from the start to the exit, -1 when the
\* exit cannot be reached
ShortestSteps(m) == StepsFrom(m, {Start}, {Start}, 0, Goal(m))

\* p is a walk over open cells of m from the start to the exit
IsPath(m, p) ==
    /\ p[1] = Start
    /\ p[Len(p)] = Goal(m)
    /\ \A k \in 1..Len(p) : IsOpen(m, p[k][1], p[k][2])
    /\ \A k \in 1..(Len(p) - 1) : Adjacent(p[k], p[k + 1])

\* ---------------------------------------------------------------------------
\* C28: for every rectangular grid of 0 and 1 whose start (1,1) is open,
\* solve_maze returns a non-empty path exactly when the exit
\* (width-2, height-2) can be reached from the start over open cells; the
\* path begins at the start, ends at the exit, holds open cells only and
\* its consecutive cells are 4-adjacent; otherwise it returns the empty
\* list.
C28_PathValid ==
    mpc = "done" =>
        /\ path # <<>> <=> ShortestSteps(maze) >= 0
        /\ path # <<>> => IsPath(maze, path)

\* solve_maze has returned a path of at least four steps
C28_Witness ==
    /\ command = "solve"
    /\ mpc = "done"
    /\ Len(path) >= 5

\* ---------------------------------------------------------------------------
\* C29: the path solve_maze returns is a shortest one, also on grids with
\* loops such as load_maze can read: its number of steps is the least
\* number of steps from the start to the exit.
C29_ShortestPath ==
    (mpc = "done" /\ path # <<>>) => Len(path) - 1 = ShortestSteps(maze)

\* solve_maze has returned a path on a grid of 4 by 4 open cells, where the
\* exit is reached along many walks of different lengths
C29_Witness ==
    /\ command = "solve"
    /\ mpc = "done"
    /\ path # <<>>
    /\ Width(maze) = 4 /\ Height(maze) = 4
    /\ Cardinality(OpenCells(maze)) = 16

\* the open cells that can be reached from the cells of seen
RECURSIVE Flood(_, _)
Flood(m, seen) ==
    CHOOSE all \in
        { IF next = seen THEN seen ELSE Flood(m, next) :
            next \in {seen \cup {cell \in OpenCells(m) :
                                   \E f \in seen : Adjacent(cell, f)}} } : TRUE

\* the passages of a grid: the pairs of open cells next to each other
Passages(m) ==
    {pair \in SUBSET OpenCells(m) :
        /\ Cardinality(pair) = 2
        /\ \A a \in pair : \A b \in pair : a # b => Adjacent(a, b)}

\* the open cells of m form a tree that holds the start and the exit: every
\* open cell is reached from the start, and there is one passage less than
\* there are open cells
PerfectMaze(m) ==
    /\ Start \in OpenCells(m)
    /\ Goal(m) \in OpenCells(m)
    /\ Flood(m, {Start}) = OpenCells(m)
    /\ Cardinality(Passages(m)) = Cardinality(OpenCells(m)) - 1

\* ---------------------------------------------------------------------------
\* C30: generate_maze produces a perfect maze: for every width and height
\* of at least 3 and every outcome of the shuffles it terminates, and the
\* open cells of its grid form a connected graph without a cycle that holds
\* the start (1,1) and the exit (width-2, height-2) of the grid; so
\* solve_maze on it never returns the empty list.  Termination with a grid
\* is: a run of gen --solve stops only when solve_maze has returned.
C30_PerfectMaze ==
    command = "gen" =>
        /\ mpc = "done" \/ ENABLED NextMaze
        /\ mpc \in {"solve", "search", "done"} => PerfectMaze(maze)
        /\ mpc = "done" => path # <<>>

\* a maze of 5 by 3 has been generated and solved, and it is a perfect maze
C30_Witness ==
    /\ command = "gen"
    /\ mpc = "done"
    /\ Width(maze) = 5 /\ Height(maze) = 3
    /\ PerfectMaze(maze)
    /\ path # <<>>

============================================================================
